---- MODULE Spec2Model ----
(***************************************************************************)
(* Model of TodoApp (src/resources/js/main.js): the task collection, its   *)
(* persistence in localStorage, the legacy-format migration, the delayed   *)
(* delete, the section filter and the rendered list.                       *)
(*                                                                         *)
(* Strings the user types are sequences of one-character strings, so that  *)
(* String.prototype.trim can be computed.  A JSON text is a sequence of    *)
(* tokens.  Time is Date.now() in milliseconds; an ISO-8601 timestamp is   *)
(* the pair (day, millisecond of the day).                                 *)
(***************************************************************************)
EXTENDS Integers, Sequences, FiniteSets, TLC

VARIABLES
  now,            \* the value Date.now() returns
  booted,         \* TRUE once `new TodoApp()` has run in the current page
  localStorage,   \* key -> stored string, for the keys that exist
  todos,          \* this.todos
  currentTheme,   \* this.currentTheme
  currentSection, \* this.currentSection
  todoList,       \* this.todoList.innerHTML: the rows or the empty state
  stats,          \* this.stats.textContent
  timers,         \* the setTimeout callbacks of deleteTodo not yet run, oldest first
  migrations,     \* how many times loadData took the legacy branch on this storage
  lastOp          \* what ran last: a page load, by the branch loadData took, or an event

vars == <<now, booted, localStorage, todos, currentTheme, currentSection,
          todoList, stats, timers, migrations, lastOp>>

----------------------------------------------------------------------------
(* Bounds of the exploration *)

MaxTodos == 2      \* addTodo is explored while the collection is shorter
MaxInstant == 1    \* the clock takes the values instant(0) .. instant(MaxInstant)
MaxTimers == 1     \* pending delete callbacks under Spec
MaxPending == 2    \* pending delete callbacks under SpecDelete
MaxLegacyM == 2    \* length of each legacy list under SpecMigrate

(* Program constants *)

CompletedOffset == 1000
MsPerDay == 86400000

Whitespace == {" ", "\t"}

\* what the user can have typed into the input box
RawTexts == { <<>>, <<" ", "\t">>, <<"\t", "a", " ">> }

\* the strings a legacy list can hold
LegacyStrings == { <<"a">>, <<" ">> }

\* the legacy lists <<todo, completed>> a storage can start with under Spec
LegacyInputs == { << <<>>, <<>> >>, << << <<" ">> >>, <<>> >>, << <<>>, << <<"a">> >> >> }

\* the values of Date.now() explored: a first millisecond, then the
\* consecutive milliseconds that open the next day
instant(i) == IF i = 0 THEN 0 ELSE MsPerDay + (i - 1)
Instants == { instant(i) : i \in 0..MaxInstant }

\* the sections a tab click can pass: the three tabs, and null when the
\* click target has no data-section attribute
Sections == {"all", "today", "completed", "null"}

SeqsUpTo(S, n) == UNION { [1..k -> S] : k \in 0..n }

----------------------------------------------------------------------------
(* Pure functions *)

RECURSIVE trimStart(_)
trimStart(s) ==
  IF s = <<>> THEN s
  ELSE IF Head(s) \in Whitespace THEN trimStart(Tail(s)) ELSE s

RECURSIVE trimEnd(_)
trimEnd(s) ==
  IF s = <<>> THEN s
  ELSE IF s[Len(s)] \in Whitespace THEN trimEnd(SubSeq(s, 1, Len(s) - 1)) ELSE s

trim_identity(s) == s

trim(s) == trimEnd(trimStart(s))

\* new Date(ms).toISOString()
toISOString(ms) == [date |-> ms \div MsPerDay, time |-> ms % MsPerDay]

\* new Date(iso).getTime()
parseISO(iso) == iso.date * MsPerDay + iso.time

\* new Date(ms).toDateString(): the calendar day
toDateString(ms) == ms \div MsPerDay

\* the tokens of the objects of the array: each Task's keys in insertion order
JSONstringifyItems(ts) ==
  [j \in 1..(8 * Len(ts)) |->
     LET todo == ts[(j - 1) \div 8 + 1]
         f == (j - 1) % 8
     IN CASE f = 0 -> "id"
          [] f = 1 -> todo.id
          [] f = 2 -> "text"
          [] f = 3 -> todo.text
          [] f = 4 -> "completed"
          [] f = 5 -> todo.completed
          [] f = 6 -> "createdAt"
          [] OTHER -> todo.createdAt]

JSONstringify_dropsFlag(ts) ==
  <<"[">> \o JSONstringifyItems([i \in 1..Len(ts) |-> [ts[i] EXCEPT !.completed = FALSE]])
          \o <<"]">>

\* JSON.stringify of an array of Task objects
JSONstringify(ts) == <<"[">> \o JSONstringifyItems(ts) \o <<"]">>

\* JSON.parse of such a text
JSONparse(v) ==
  [i \in 1..((Len(v) - 2) \div 8) |->
     [id        |-> v[8 * (i - 1) + 3],
      text      |-> v[8 * (i - 1) + 5],
      completed |-> v[8 * (i - 1) + 7],
      createdAt |-> v[8 * (i - 1) + 9]]]

\* localStorage.getItem(k) is a non-empty string (`if (item)`)
Truthy(ls, k) == k \in DOMAIN ls /\ ls[k] # <<>>

setItem(ls, k, v) == [x \in DOMAIN ls \cup {k} |-> IF x = k THEN v ELSE ls[x]]

removeItem_keeps(ls, k) == ls

removeItem(ls, k) == [x \in DOMAIN ls \ {k} |-> ls[x]]

save_skipped(ls, ts) == ls

\* this.save()
save(ls, ts) == setItem(ls, "todos", JSONstringify(ts))

Ids(ts) == { ts[i].id : i \in 1..Len(ts) }

unshift_push(ts, todo) == Append(ts, todo)

\* this.todos.unshift(todo)
unshift(ts, todo) == <<todo>> \o ts

toggleMap_sets(ts, id) ==
  [i \in 1..Len(ts) |-> IF ts[i].id = id THEN [ts[i] EXCEPT !.completed = TRUE] ELSE ts[i]]

\* this.todos.map(todo => todo.id === id ? {...todo, completed: !todo.completed} : todo)
toggleMap(ts, id) ==
  [i \in 1..Len(ts) |->
     IF ts[i].id = id THEN [ts[i] EXCEPT !.completed = ~ts[i].completed] ELSE ts[i]]

\* this.todos.filter(todo => todo.id !== id)
filterOut(ts, id) == SelectSeq(ts, LAMBDA todo : todo.id # id)

isToday(todo, n) == toDateString(parseISO(todo.createdAt)) = toDateString(n) /\ ~todo.completed

matches_defaultAll(todo, section, n) ==
  CASE section = "today" -> isToday(todo, n)
    [] section = "completed" -> todo.completed
    [] section = "all" -> ~todo.completed
    [] OTHER -> TRUE

matches(todo, section, n) ==
  CASE section = "today" -> isToday(todo, n)
    [] section = "completed" -> todo.completed
    [] OTHER -> ~todo.completed

getFilteredTodos(ts, section, n) == SelectSeq(ts, LAMBDA todo : matches(todo, section, n))

escapeChar(c) ==
  CASE c = "<" -> "&lt;"
    [] c = ">" -> "&gt;"
    [] c = "&" -> "&amp;"
    [] OTHER -> c

escapeHtml(text) == [i \in 1..Len(text) |-> escapeChar(text[i])]

renderList_unfiltered(ts, section, n) ==
  LET filtered == getFilteredTodos(ts, "all", n) IN
  IF Len(filtered) = 0
  THEN [empty |-> IF section \in {"all", "today", "completed"} THEN section ELSE "all",
        rows  |-> <<>>]
  ELSE [empty |-> "none",
        rows  |-> [i \in 1..Len(filtered) |->
                     [id        |-> filtered[i].id,
                      completed |-> filtered[i].completed,
                      text      |-> escapeHtml(filtered[i].text),
                      removing  |-> FALSE]]]

\* the markup render() assigns to this.todoList.innerHTML
renderList(ts, section, n) ==
  LET filtered == getFilteredTodos(ts, section, n) IN
  IF Len(filtered) = 0
  THEN [empty |-> IF section \in {"all", "today", "completed"} THEN section ELSE "all",
        rows  |-> <<>>]
  ELSE [empty |-> "none",
        rows  |-> [i \in 1..Len(filtered) |->
                     [id        |-> filtered[i].id,
                      completed |-> filtered[i].completed,
                      text      |-> escapeHtml(filtered[i].text),
                      removing  |-> FALSE]]]

plural(k) == IF k # 1 THEN "s" ELSE ""

updateStats_bySection(ts, section, n) ==
  LET total == Len(ts)
      completed == Cardinality({i \in 1..Len(ts) : ts[i].completed})
      pending == total - completed
      todayTasks == Cardinality({i \in 1..Len(ts) : isToday(ts[i], n)})
  IN CASE section = "today" -> <<todayTasks, " task", plural(todayTasks), " for today">>
       [] section = "completed" -> <<completed, " completed task", plural(completed)>>
       [] OTHER -> <<total, " task", plural(total), " * ", completed, " completed * ",
                     pending, " pending">>

\* the text updateStats() assigns to this.stats.textContent
updateStats(ts, section, n) ==
  LET total == Len(ts)
      completed == Cardinality({i \in 1..Len(ts) : ts[i].completed})
      pending == total - completed
      todayTasks == Cardinality({i \in 1..Len(ts) : isToday(ts[i], n)})
  IN IF total = 0 THEN <<"0 tasks">>
     ELSE CASE section = "today" -> <<todayTasks, " task", plural(todayTasks), " for today">>
            [] section = "completed" -> <<completed, " completed task", plural(completed)>>
            [] OTHER -> <<total, " task", plural(total), " * ", completed, " completed * ",
                          pending, " pending">>

\* the ids loadData gives the migrated Tasks: each iteration reads Date.now()
\* again, and the clock moves from n to n + d before the k-th iteration
clockAt(n, d, k, pos) == IF pos > k THEN n + d ELSE n

migrate(T, C, n, d, k) ==
  [i \in 1..(Len(T) + Len(C)) |->
     IF i <= Len(T)
     THEN [id |-> clockAt(n, d, k, i) + (i - 1), text |-> T[i], completed |-> FALSE,
           createdAt |-> toISOString(clockAt(n, d, k, i))]
     ELSE [id |-> clockAt(n, d, k, i) + CompletedOffset + (i - Len(T) - 1),
           text |-> C[i - Len(T)], completed |-> TRUE,
           createdAt |-> toISOString(clockAt(n, d, k, i))]]

\* JSON.parse of the legacy text {todo: [...], completed: [...]}
parseLegacy(v) == [todo |-> v[2], completed |-> v[4]]

legacyText(T, C) == <<"todo", T, "completed", C>>

----------------------------------------------------------------------------
(* The handlers *)

\* the next millisecond is an explored value of the clock
canTick(n) == n + 1 \in Instants

\* loadData: the collection, the storage and the clock it leaves, and the
\* branch it took
loadData ==
  \/ /\ lastOp' = "load"
     /\ Truthy(localStorage, "todos")
     /\ todos' = JSONparse(localStorage["todos"])
     /\ UNCHANGED <<localStorage, now, migrations>>
  \/ /\ lastOp' = "migrate"
     /\ ~Truthy(localStorage, "todos")
     /\ Truthy(localStorage, "todoList")
     /\ LET parsed == parseLegacy(localStorage["todoList"])
            total == Len(parsed.todo) + Len(parsed.completed)
        IN \E d \in 0..1 : \E k \in 0..total :
             /\ d = 1 => canTick(now)
             /\ d = 0 => k = total
             /\ todos' = migrate(parsed.todo, parsed.completed, now, d, k)
             /\ now' = now + d
     /\ localStorage' = removeItem(save(localStorage, todos'), "todoList")
     /\ migrations' = migrations + 1
  \/ /\ lastOp' = "load-empty"
     /\ ~Truthy(localStorage, "todos")
     /\ ~Truthy(localStorage, "todoList")
     /\ todos' = <<>>
     /\ UNCHANGED <<localStorage, now, migrations>>

\* new TodoApp(): the page is opened or reloaded
Construct ==
  /\ loadData
  /\ currentTheme' = IF Truthy(localStorage, "theme") THEN localStorage["theme"][1] ELSE "light"
  /\ currentSection' = "all"
  /\ timers' = <<>>
  /\ booted' = TRUE
  /\ todoList' = renderList(todos', currentSection', now')
  /\ stats' = updateStats(todos', currentSection', now')

\* addTodo, `raw` being what the input box holds
addTodo(raw) ==
  /\ booted
  /\ UNCHANGED <<now, booted, currentTheme, currentSection, timers, migrations>>
  /\ LET text == trim(raw) IN
     IF text = <<>>
     THEN /\ lastOp' = "event"
          /\ UNCHANGED <<localStorage, todos, todoList, stats>>
     ELSE /\ Len(todos) < MaxTodos
          /\ todos' = unshift(todos, [id |-> now, text |-> text, completed |-> FALSE,
                                      createdAt |-> toISOString(now)])
          /\ localStorage' = save(localStorage, todos')
          /\ todoList' = renderList(todos', currentSection, now)
          /\ stats' = updateStats(todos', currentSection, now)
          /\ lastOp' = "event"

\* the ids a caller can pass: those of the collection and one of no Task
AbsentId == 7
IdInputs == Ids(todos) \cup {AbsentId}

toggleTodo(id) ==
  /\ booted
  /\ UNCHANGED <<now, booted, currentTheme, currentSection, timers, migrations>>
  /\ todos' = toggleMap(todos, id)
  /\ localStorage' = save(localStorage, todos')
  /\ todoList' = renderList(todos', currentSection, now)
  /\ stats' = updateStats(todos', currentSection, now)
  /\ lastOp' = "event"

\* document.querySelector(`[data-id="${id}"]`): index of the first such row, or 0
querySelector(list, id) ==
  IF \E i \in 1..Len(list.rows) : list.rows[i].id = id
  THEN CHOOSE i \in 1..Len(list.rows) :
         /\ list.rows[i].id = id
         /\ \A j \in 1..(i - 1) : list.rows[j].id # id
  ELSE 0

\* deleteTodo, explored while fewer than `cap` callbacks are pending
deleteTodoWithin(id, cap) ==
  /\ booted
  /\ UNCHANGED <<now, booted, localStorage, todos, currentTheme, currentSection,
                 stats, migrations>>
  /\ LET todoElement == querySelector(todoList, id) IN
     IF todoElement # 0
     THEN /\ Len(timers) < cap
          /\ todoList' = [todoList EXCEPT !.rows[todoElement].removing = TRUE]
          /\ timers' = Append(timers, id)
          /\ lastOp' = "event"
     ELSE /\ lastOp' = "event"
          /\ UNCHANGED <<todoList, timers>>

deleteTodo(id) == deleteTodoWithin(id, MaxTimers)

\* the ids of the pending callbacks
TimerIds == { timers[i] : i \in 1..Len(timers) }

\* the callback deleteTodo(id) passed to setTimeout runs; callbacks of equal
\* delay run in the order they were scheduled
deleteTimeout(id) ==
  /\ booted
  /\ timers # <<>>
  /\ id = Head(timers)
  /\ timers' = Tail(timers)
  /\ UNCHANGED <<now, booted, currentTheme, currentSection, migrations>>
  /\ todos' = filterOut(todos, id)
  /\ localStorage' = save(localStorage, todos')
  /\ todoList' = renderList(todos', currentSection, now)
  /\ stats' = updateStats(todos', currentSection, now)
  /\ lastOp' = "event"

switchSection_persists(section) ==
  /\ booted
  /\ currentSection' = section
  /\ localStorage' = setItem(localStorage, "section", <<section>>)
  /\ UNCHANGED <<now, booted, todos, currentTheme, timers, migrations>>
  /\ todoList' = renderList(todos, currentSection', now)
  /\ stats' = updateStats(todos, currentSection', now)
  /\ lastOp' = "event"

switchSection(section) ==
  /\ booted
  /\ currentSection' = section
  /\ UNCHANGED <<now, booted, localStorage, todos, currentTheme, timers, migrations>>
  /\ todoList' = renderList(todos, currentSection', now)
  /\ stats' = updateStats(todos, currentSection', now)
  /\ lastOp' = "event"

flipTheme_dark(theme) == "dark"

\* this.currentTheme === 'light' ? 'dark' : 'light'
flipTheme(theme) == IF theme = "light" THEN "dark" ELSE "light"

toggleTheme ==
  /\ booted
  /\ currentTheme' = flipTheme(currentTheme)
  /\ localStorage' = setItem(localStorage, "theme", <<currentTheme'>>)
  /\ lastOp' = "event"
  /\ UNCHANGED <<now, booted, todos, currentSection, todoList, stats, timers, migrations>>

\* time passes
Tick ==
  /\ \E t \in Instants : t > now /\ now' = t
  /\ lastOp' = "event"
  /\ UNCHANGED <<booted, localStorage, todos, currentTheme, currentSection,
                 todoList, stats, timers, migrations>>

----------------------------------------------------------------------------
(* Specifications *)

EmptyStorage == [x \in {} |-> <<>>]

LegacyStorage(T, C) == setItem(EmptyStorage, "todoList", legacyText(T, C))

InitFields ==
  /\ booted = FALSE
  /\ todos = <<>>
  /\ currentTheme = "light"
  /\ currentSection = "all"
  /\ todoList = [empty |-> "all", rows |-> <<>>]
  /\ stats = <<"0 tasks">>
  /\ timers = <<>>
  /\ migrations = 0
  /\ lastOp = "none"

\* the page is opened at the first explored millisecond
InitPage ==
  /\ now = 0
  /\ InitFields

\* a browser that never ran the application, or ran the legacy version
Init ==
  /\ InitPage
  /\ \/ localStorage = EmptyStorage
     \/ \E legacy \in LegacyInputs : localStorage = LegacyStorage(legacy[1], legacy[2])

Next ==
  \/ Construct
  \/ \E raw \in RawTexts : addTodo(raw)
  \/ \E id \in IdInputs : toggleTodo(id)
  \/ \E id \in IdInputs : deleteTodo(id)
  \/ \E id \in TimerIds : deleteTimeout(id)
  \/ \E section \in Sections : switchSection(section)
  \/ toggleTheme
  \/ Tick

Spec == Init /\ [][Next]_vars

\* Loading alone, at the first millisecond or at the last one of the day, so
\* that the clock can move while the lists are migrated; over every pair of legacy lists up to MaxLegacyM strings each
\* and over a todo list longer than the offset of the completed list's ids
LongList == [i \in 1..(CompletedOffset + 1) |-> <<"a">>]

InitMigrate ==
  /\ InitFields
  /\ \/ /\ now \in {0, MsPerDay - 1}
        /\ \/ localStorage = EmptyStorage
           \/ \E T \in SeqsUpTo(LegacyStrings, MaxLegacyM), C \in SeqsUpTo(LegacyStrings, MaxLegacyM) :
                localStorage = LegacyStorage(T, C)
     \/ /\ now = 0
        /\ localStorage = LegacyStorage(LongList, << <<"a">> >>)

NextMigrate ==
  \/ Construct
  \/ Tick

SpecMigrate == InitMigrate /\ [][NextMigrate]_vars

\* The application with up to MaxPending delete callbacks pending at once
NextDelete ==
  \/ Construct
  \/ \E raw \in RawTexts : addTodo(raw)
  \/ \E id \in IdInputs : toggleTodo(id)
  \/ \E id \in IdInputs : deleteTodoWithin(id, MaxPending)
  \/ \E id \in TimerIds : deleteTimeout(id)
  \/ \E section \in Sections : switchSection(section)
  \/ toggleTheme
  \/ Tick

SpecDelete == Init /\ [][NextDelete]_vars

----------------------------------------------------------------------------
(* Vocabulary of the properties *)

Blank(s) == \A i \in 1..Len(s) : s[i] \in Whitespace

\* t is raw without its leading and trailing whitespace
IsTrimOf(t, raw) ==
  /\ t # <<>>
  /\ t[1] \notin Whitespace
  /\ t[Len(t)] \notin Whitespace
  /\ \E a \in 0..Len(raw) :
       /\ a + Len(t) <= Len(raw)
       /\ SubSeq(raw, a + 1, a + Len(t)) = t
       /\ Blank(SubSeq(raw, 1, a))
       /\ Blank(SubSeq(raw, a + Len(t) + 1, Len(raw)))

DistinctIds(ts) == \A i, j \in 1..Len(ts) : i # j => ts[i].id # ts[j].id

\* ts without its element at position p
WithoutIndex(ts, p) == [i \in 1..(Len(ts) - 1) |-> IF i < p THEN ts[i] ELSE ts[i + 1]]

HasTodosKey == "todos" \in DOMAIN localStorage

\* res is made of exactly the elements of ts that satisfy P, in the order of ts
IsSelection(res, ts, P(_)) ==
  LET sat == { i \in 1..Len(ts) : P(ts[i]) }
  IN /\ Len(res) = Cardinality(sat)
     /\ \A i \in sat : res[Cardinality({ j \in sat : j <= i })] = ts[i]

\* what a section is to show at the instant n
Shown(todo, section, n) ==
  IF section = "completed" THEN todo.completed
  ELSE IF section = "today"
       THEN ~todo.completed /\ todo.createdAt.date * MsPerDay <= n
                            /\ n < (todo.createdAt.date + 1) * MsPerDay
       ELSE ~todo.completed

----------------------------------------------------------------------------
(* C1: in every reachable state the Tasks of the collection have pairwise
   distinct ids. *)
C1_UniqueIds == DistinctIds(todos)

(* C2: after a completed mutation (an add of non-blank text, a toggle, a
   committed delete, the legacy migration) the value stored under `todos`
   decodes to exactly the in-memory collection. *)
C2_StoredIsMemory ==
  [][(\/ \E raw \in RawTexts : ~Blank(raw) /\ addTodo(raw)
      \/ \E id \in IdInputs : toggleTodo(id)
      \/ \E id \in TimerIds : deleteTimeout(id)
      \/ migrations' # migrations /\ Construct)
       => "todos" \in DOMAIN localStorage' /\ JSONparse(localStorage'["todos"]) = todos'
    ]_vars

C2_Witness ==
  /\ HasTodosKey
  /\ migrations = 0
  /\ Len(todos) = 2
  /\ todos[1].completed
  /\ ~todos[2].completed
  /\ todos[1].id # todos[2].id

(* C3: delete(id) of an id in the collection, whichever section is selected,
   schedules the removal and leaves the collection alone until the delay has
   elapsed; the delayed callback then removes exactly the Task with that id,
   the others staying as they are and in order; delete(id) of an id not in
   the collection changes neither the collection nor the storage. *)
C3_DeleteRemovesExactlyThatTask ==
  [][\A id \in IdInputs :
       /\ (deleteTodo(id) /\ id \in Ids(todos))
            => timers' = Append(timers, id) /\ todos' = todos
       /\ (deleteTodo(id) /\ id \notin Ids(todos))
            => UNCHANGED <<todos, localStorage, timers>>
       /\ (deleteTimeout(id) /\ id \in Ids(todos))
            => /\ id \notin Ids(todos')
               /\ \E p \in 1..Len(todos) : todos[p].id = id /\ todos' = WithoutIndex(todos, p)
               /\ JSONparse(localStorage'["todos"]) = todos'
     ]_vars

(* C4: toggle(id) flips `completed` of the one Task whose id matches and
   changes nothing else of the collection; with no such Task the collection
   stays as it was. *)
C4_ToggleChangesOneTask ==
  [][\A id \in IdInputs :
       toggleTodo(id) =>
         /\ Len(todos') = Len(todos)
         /\ IF id \in Ids(todos)
            THEN \E p \in 1..Len(todos) :
                   /\ todos[p].id = id
                   /\ todos'[p] = [todos[p] EXCEPT !.completed = ~todos[p].completed]
                   /\ \A q \in 1..Len(todos) : q # p => todos'[q] = todos[q]
            ELSE todos' = todos
     ]_vars

(* C5: add(text) with text that is not blank puts exactly one new Task at the
   front, its text the trimmed input and completed = false; the Tasks that
   were there follow it, unchanged and in their order. *)
C5_AddPrepends ==
  [][\A raw \in RawTexts :
       (addTodo(raw) /\ ~Blank(raw)) =>
         /\ Len(todos') = Len(todos) + 1
         /\ IsTrimOf(todos'[1].text, raw)
         /\ todos'[1].completed = FALSE
         /\ Tail(todos') = todos
     ]_vars

\* a migration brings at most one Task here, so an add has put a Task in front of it
C5_Witness ==
  /\ migrations = 1
  /\ Len(todos) = 2
  /\ ~todos[1].completed
  /\ todos[2].completed
  /\ todos[1].text = <<"a">>

(* C6: add(text) with empty or whitespace-only text changes neither the
   collection nor the stored value, nor what is displayed. *)
C6_BlankAddIsNoOp ==
  [][\A raw \in RawTexts :
       (addTodo(raw) /\ Blank(raw)) =>
         UNCHANGED <<todos, localStorage, todoList, stats, timers, booted>>
     ]_vars

\* blank input meets a collection that is stored and displayed
C6_Witness ==
  /\ booted
  /\ lastOp = "event"
  /\ HasTodosKey
  /\ Len(todos) >= 1
  /\ Len(todoList.rows) >= 1
  /\ \E raw \in RawTexts : raw # <<>> /\ Blank(raw) /\ ENABLED addTodo(raw)

(* C7: in every reachable state no Task of the collection, nor of the stored
   `todos` value, has an empty or whitespace-only text. *)
C7_TextsNotBlank ==
  /\ \A i \in 1..Len(todos) : ~Blank(todos[i].text)
  /\ HasTodosKey =>
       LET stored == JSONparse(localStorage["todos"])
       IN \A i \in 1..Len(stored) : ~Blank(stored[i].text)

(* C8: migrating legacy data {todo: T, completed: C} gives |T| + |C| Tasks,
   one uncompleted per string of T and one completed per string of C, each
   with that string as its text, and all their ids distinct. *)
C8_MigrationBatch ==
  [][(Construct /\ migrations' # migrations) =>
       LET parsed == parseLegacy(localStorage["todoList"])
           T == parsed.todo
           C == parsed.completed
       IN /\ Len(todos') = Len(T) + Len(C)
          /\ \A i \in 1..Len(T) : todos'[i].text = T[i] /\ ~todos'[i].completed
          /\ \A i \in 1..Len(C) :
               todos'[Len(T) + i].text = C[i] /\ todos'[Len(T) + i].completed
          /\ Cardinality(Ids(todos')) = Len(todos')
     ]_vars

(* C9: a load that migrates legacy data leaves the legacy key absent and the
   current key present; every later load reads the current key, migrates
   nothing and brings back the collection as it was, so that migration
   happens at most once on a storage. *)
C9_MigratesOnce ==
  [][/\ (Construct /\ migrations' # migrations) =>
          "todoList" \notin DOMAIN localStorage' /\ "todos" \in DOMAIN localStorage'
     /\ (migrations >= 1 /\ Construct) =>
          /\ lastOp' = "load"
          /\ migrations' = 1
          /\ "todoList" \notin DOMAIN localStorage'
          /\ todos' = todos
     ]_vars

C9_Witness ==
  /\ migrations = 1
  /\ lastOp = "load"
  /\ Len(todos) >= 2

(* C10: loading what was persisted gives back the collection, field for field
   and in order, whatever collection add, toggle and delete have produced. *)
C10_RoundTrip ==
  [][(booted /\ HasTodosKey /\ Construct) => todos' = todos /\ lastOp' = "load"]_vars

C10_Witness ==
  /\ lastOp = "load"
  /\ migrations = 0
  /\ Len(todos) = 2
  /\ todos[1].completed
  /\ ~todos[2].completed

(* C11: when delete is requested twice for the same id before the first
   callback has run, the first callback removes exactly the Task of that id,
   the second finds nothing to remove and changes nothing, and after each the
   stored value decodes to the collection. *)
C11_DoubleDelete ==
  [][\A id \in TimerIds :
       deleteTimeout(id) =>
         /\ JSONparse(localStorage'["todos"]) = todos'
         /\ (timers = <<id, id>> /\ id \in Ids(todos)) =>
              /\ id \notin Ids(todos')
              /\ \E p \in 1..Len(todos) : todos[p].id = id /\ todos' = WithoutIndex(todos, p)
         /\ id \notin Ids(todos) => todos' = todos
     ]_vars

(* C12: the filter returns, in collection order, exactly the uncompleted
   Tasks for `all` and for an unknown section, exactly the completed Tasks for
   `completed`, and exactly the uncompleted Tasks created on the current
   calendar day for `today`. *)
C12_FilterSelects ==
  \A section \in Sections : \A n \in Instants :
    IsSelection(getFilteredTodos(todos, section, n), todos,
                LAMBDA todo : Shown(todo, section, n))

\* the today list and the all list differ, and the section shown is unknown
C12_Witness ==
  /\ currentSection = "null"
  /\ Len(todoList.rows) = 1
  /\ Len(todos) = 2
  /\ todos[2].completed
  /\ Len(getFilteredTodos(todos, "today", now)) = 0
  /\ Len(getFilteredTodos(todos, "completed", now)) = 1

(* C13: toggling the same existing id twice in a row flips that Task's
   `completed` and flips it back, and leaves the collection, and what is
   stored, as they were before the two toggles. *)
C13_ToggleTwice ==
  \A id \in Ids(todos) :
    LET once == toggleMap(todos, id)
        twice == toggleMap(once, id)
    IN /\ twice = todos
       /\ \A i \in 1..Len(todos) :
            todos[i].id = id => once[i].completed = ~todos[i].completed
       /\ HasTodosKey =>
            save(save(localStorage, once), twice)["todos"] = localStorage["todos"]

\* a collection where toggles have acted, one Task of it completed and shown
C13_Witness ==
  /\ migrations = 0
  /\ currentSection = "completed"
  /\ Len(todos) = 2
  /\ ~todos[1].completed
  /\ todos[2].completed
  /\ Len(todoList.rows) = 1

(* C14: toggleTheme flips currentTheme between light and dark, so that a
   second toggle gives the first theme back; it stores the new value under
   the key theme; and it changes neither the collection, nor what storage
   holds under the other keys, nor currentSection. *)
C14_ToggleTheme ==
  [][toggleTheme =>
       /\ currentTheme \in {"light", "dark"}
       /\ currentTheme' \in {"light", "dark"}
       /\ currentTheme' # currentTheme
       /\ flipTheme(currentTheme') = currentTheme
       /\ "theme" \in DOMAIN localStorage'
       /\ localStorage'["theme"] = <<currentTheme'>>
       /\ DOMAIN localStorage' = DOMAIN localStorage \cup {"theme"}
       /\ \A k \in DOMAIN localStorage \ {"theme"} : localStorage'[k] = localStorage[k]
       /\ UNCHANGED <<todos, currentSection>>
    ]_vars

\* the theme is light again after having been stored, with Tasks around
C14_Witness ==
  /\ booted
  /\ currentTheme = "light"
  /\ "theme" \in DOMAIN localStorage
  /\ localStorage["theme"] = <<"light">>
  /\ HasTodosKey
  /\ todos # <<>>
  /\ currentSection = "today"

(* C15: whenever the page is up and the collection is empty, the stats text
   is exactly "0 tasks", whichever section is selected; and updateStats
   gives that text for an empty collection in every section at every
   instant. *)
C15_EmptyStats ==
  /\ (booted /\ todos = <<>>) => stats = <<"0 tasks">>
  /\ \A section \in Sections : \A n \in Instants :
       updateStats(<<>>, section, n) = <<"0 tasks">>

\* the collection was emptied by a delete, in a section other than all
C15_Witness ==
  /\ booted
  /\ migrations = 0
  /\ todos = <<>>
  /\ HasTodosKey
  /\ localStorage["todos"] = JSONstringify(<<>>)
  /\ currentSection = "completed"
  /\ stats = <<"0 tasks">>

(* C16: toggle, delete commit, switchSection and toggleTheme keep the
   relative order of the Tasks that are there before and after, and the
   collection is always ordered most recently added first: no Task stands
   before a Task that was created later. *)
C16_NewestFirst ==
  [][/\ \A i \in 1..(Len(todos') - 1) :
          parseISO(todos'[i].createdAt) >= parseISO(todos'[i + 1].createdAt)
     /\ \A id \in IdInputs :
          toggleTodo(id) =>
            /\ Len(todos') = Len(todos)
            /\ \A i \in 1..Len(todos) :
                 todos'[i] = [todos[i] EXCEPT !.completed = todos'[i].completed]
     /\ \A id \in TimerIds :
          deleteTimeout(id) => IsSelection(todos', todos, LAMBDA todo : todo.id # id)
     /\ (toggleTheme \/ \E section \in Sections : switchSection(section)) => todos' = todos
    ]_vars

(* C17: switchSection(section) sets currentSection to the section it is
   given and changes neither the collection, nor anything storage holds, nor
   the theme; storage never holds anything but the todos, the legacy list
   and the theme, and a load always starts in section all. *)
C17_SwitchSection ==
  [][/\ \A section \in Sections :
          \/ /\ currentSection' = section
             /\ UNCHANGED <<todos, localStorage, currentTheme, timers>>
          \/ ~switchSection(section)
     /\ currentSection' = "all" \/ ~Construct
     /\ DOMAIN localStorage' \subseteq {"todos", "todoList", "theme"}
     /\ "theme" \in DOMAIN localStorage' => localStorage'["theme"] = <<currentTheme'>>
    ]_vars

\* a section was selected while Tasks, a pending delete and a stored theme exist
C17_Witness ==
  /\ booted
  /\ currentSection = "completed"
  /\ currentTheme = "dark"
  /\ todos # <<>>
  /\ timers # <<>>
  /\ todoList.rows = <<>>

(* C18: while a delete of id X is pending, the request itself has changed
   neither the collection nor the stored todos; an add, a toggle or a
   switchSection in that window takes its normal effect and leaves the
   delete pending; and the delayed callback leaves the collection of that
   moment minus the Task X, stored as such, so that nothing done in the
   window is lost. *)
C18_PendingDelete ==
  [][/\ \A id \in IdInputs :
          deleteTodo(id) => UNCHANGED <<todos, localStorage>>
     /\ timers # <<>> =>
          /\ \A raw \in RawTexts :
               (addTodo(raw) /\ ~Blank(raw)) =>
                 /\ Len(todos') = Len(todos) + 1
                 /\ Tail(todos') = todos
                 /\ timers' = timers
          /\ \A id \in IdInputs :
               toggleTodo(id) =>
                 /\ Len(todos') = Len(todos)
                 /\ \A i \in 1..Len(todos) :
                      todos'[i] = IF todos[i].id = id
                                  THEN [todos[i] EXCEPT !.completed = ~todos[i].completed]
                                  ELSE todos[i]
                 /\ timers' = timers
          /\ \A section \in Sections :
               switchSection(section) =>
                 currentSection' = section /\ UNCHANGED <<todos, localStorage, timers>>
     /\ \A id \in TimerIds :
          deleteTimeout(id) =>
            /\ JSONparse(localStorage'["todos"]) = todos'
            /\ IF id \in Ids(todos)
               THEN \E p \in 1..Len(todos) : todos[p].id = id /\ todos' = WithoutIndex(todos, p)
               ELSE todos' = todos
    ]_vars

\* the list shows exactly the Tasks of ts that belong to the section at
\* instant n, in the order of ts, and the empty-state message when there are none
RowsShow(list, ts, section, n) ==
  LET sat == { i \in 1..Len(ts) : Shown(ts[i], section, n) }
  IN /\ Len(list.rows) = Cardinality(sat)
     /\ \A i \in sat :
          LET row == list.rows[Cardinality({ j \in sat : j <= i })]
          IN /\ row.id = ts[i].id
             /\ row.completed = ts[i].completed
             /\ row.text = escapeHtml(ts[i].text)
     /\ (list.empty # "none") <=> (sat = {})

RowIds(list) == { list.rows[i].id : i \in 1..Len(list.rows) }

(* C19 as stated: after every load, add, toggle, delete commit,
   switchSection and toggleTheme, the rows shown are exactly the Tasks of the
   collection that belong to currentSection at that moment, in collection
   order, the empty-state message being shown exactly when there are none;
   and every row's id is the id of a Task of the collection. *)
C19_RowsAreFiltered ==
  [][(\/ Construct
      \/ \E raw \in RawTexts : addTodo(raw) /\ ~Blank(raw)
      \/ \E id \in IdInputs : toggleTodo(id)
      \/ \E id \in TimerIds : deleteTimeout(id)
      \/ \E section \in Sections : switchSection(section)
      \/ toggleTheme)
       => /\ RowsShow(todoList', todos', currentSection', now')
          /\ RowIds(todoList') \subseteq Ids(todos')
    ]_vars

(* C19, amended: after every load, add of a non-blank text, toggle, delete
   commit and switchSection the rows shown are exactly the Tasks of the
   collection that belong to currentSection at that moment, in collection
   order, with the empty-state message exactly when there are none;
   toggleTheme leaves the list as it was; and after every step every row's
   id is the id of a Task of the collection. *)
C19_RenderedRowsAreFiltered ==
  [][/\ \/ RowsShow(todoList', todos', currentSection', now')
        \/ ~(\/ Construct
             \/ \E raw \in RawTexts : ~Blank(raw) /\ addTodo(raw)
             \/ \E id \in IdInputs : toggleTodo(id)
             \/ \E id \in TimerIds : deleteTimeout(id)
             \/ \E section \in Sections : switchSection(section))
     /\ toggleTheme => todoList' = todoList
     /\ RowIds(todoList') \subseteq Ids(todos')
    ]_vars

\* the theme was toggled on a later day than the list was rendered: section
\* today still shows a Task that was not created today
C19_Witness ==
  /\ booted
  /\ currentTheme = "dark"
  /\ currentSection = "today"
  /\ todoList.rows # <<>>
  /\ getFilteredTodos(todos, "today", now) = <<>>
  /\ RowIds(todoList) \subseteq Ids(todos)

====
